---- MODULE Spec2Model ----
(***************************************************************************)
(* Execution and error-strategy engine of pjpawel/runner.                  *)
(*                                                                         *)
(* Two copies of the engine live in the repository and both are modelled:  *)
(*   engine = "base"    src/runner_pjpawel/command/base.py (current)       *)
(*   engine = "legacy"  src/runner_pjpawel/command.py      (older copy)    *)
(* The interpreter's call stack is the variable stack; a finished callee   *)
(* hands its return value or its raised exception to the caller in sig.    *)
(***************************************************************************)
EXTENDS Integers, Sequences, FiniteSets, TLC

VARIABLES
    engine,          \* which copy of the engine runs
    rootKind,        \* class of the root command: "leaf" (any command without
                     \* children), "group", "parallel", "cyclic" or "thread"
    commands,        \* GroupCommand.commands of the root group (child ids);
                     \* for a cyclic root its one CyclicCommand.command
    cycles,          \* CyclicCommand.cycles
    timeout,         \* ThreadCommand.timeout: "None" or "set" (a float)
    error_strategy,  \* BaseCommand.error_strategy, per command id
    reset_callback,  \* GroupCommand.reset_callback: "None" or "callable"
    iteration,       \* GroupCommand.iteration attribute of the root group
    counter,         \* Counter (process-wide)
    stack,           \* call stack, innermost frame last
    sig,             \* completion of the frame popped last
    cur,             \* the thread that runs: Main, or a worker's index in parked
    parked,          \* stack and sig of every thread that is not running
    started,         \* history: what every worker thread was started for
    hooked,          \* history: calls of reset_callback, [cmd, result]
    asked,           \* what get_number_of_works() gave the caller, if asked
    works,           \* history: leaf _do_work calls of the current process() call
    calls,           \* history: children whose process() the group invoked
    faults,          \* history: number of child process() calls that raised
    okWorks,         \* history: _do_work attempts that returned OK or None
    counter0,        \* history: Counter when the current process() call began
    nworks,          \* history: leaf _do_work calls made in total
    runs             \* history: top-level process() calls made

vars == <<engine, rootKind, commands, cycles, timeout, error_strategy, reset_callback,
          iteration, counter, stack, sig, cur, parked, started, hooked, asked,
          works, calls, faults, okWorks, counter0, nworks, runs>>

config == <<engine, rootKind, commands, cycles, timeout, error_strategy, reset_callback>>

\* what only the scheduler changes
threads == <<cur, parked, started>>

\* ---------------------------------------------------------------- bounds
MaxChildren == 2
MaxWorks == 3
MaxRuns == 2
MaxCycles == 2

\* ------------------------------------------------------- program constants
\* the attempt cap of the engine
MaxAttempts == 3
\* retry count carried by the fault of the test command
TestRetry == 5

Engines == {"base", "legacy"}
Strategies == {"stop", "omit", "restart"}

Root == 0
\* the thread of the caller of process()
Main == 0
\* the command a reset callback hands back
Repl == MaxChildren + 1

\* ------------------------------------------------------------ CommandResult
NoMsg == "None"

CommandResult(level, msg, info) == [level |-> level, msg |-> msg, info |-> info]

\* Python's None where a CommandResult is expected
None == [level |-> "NONE", msg |-> NoMsg, info |-> <<>>]

new_ok == CommandResult("OK", NoMsg, <<>>)
new_error == CommandResult("ERROR", NoMsg, <<>>)
CannotRun == CommandResult("CRITICAL", "Cannot run process. ", <<"command">>)
Unexpected(e) == CommandResult("ERROR", "Unexcepted exception caught", <<e.type>>)

\* results of the modelled leaves
ShellOk == CommandResult("OK", "stdout", <<"stderr">>)
ShellError == CommandResult("ERROR", "stdout", <<"stderr">>)
LeafCritical == CommandResult("CRITICAL", "fatal", <<>>)

\* --------------------------------------------------------------- exceptions
Exc(type, result, retry) == [type |-> type, result |-> result, retry |-> retry]
NoExc == Exc("none", None, 0)
RunnerRuntimeError(result, retry) == Exc("RunnerRuntimeError", result, retry)
TypeError == Exc("TypeError", None, 0)
AttributeError == Exc("AttributeError", None, 0)
OSError == Exc("OSError", None, 0)

\* ---------------------------------------------------------------- signals
NoSig == [t |-> "none", res |-> None, exc |-> NoExc]
Return(r) == [t |-> "ret", res |-> r, exc |-> NoExc]
Raise(e) == [t |-> "exc", res |-> None, exc |-> e]

\* what one call of a leaf's _do_work can do
LeafOutcomes ==
    { Return(ShellOk), Return(ShellError), Return(LeafCritical), Return(None),
      Raise(RunnerRuntimeError(new_error, TestRetry)),
      Raise(RunnerRuntimeError(LeafCritical, 2)),
      Raise(OSError) }

\* ------------------------------------------------------------------ frames
Frame(fn, cmd, pc) ==
    [fn |-> fn, cmd |-> cmd, pc |-> pc, it |-> 1, n |-> 0, res |-> None, exc |-> NoExc]

Top == stack[Len(stack)]
Popped == SubSeq(stack, 1, Len(stack) - 1)
WithTop(f) == [stack EXCEPT ![Len(stack)] = f]
Running(fn, pc) == stack # <<>> /\ Top.fn = fn /\ Top.pc = pc

\* a thread's saved stack and sig; Idle stands in for the running thread
Context(stk, sg) == [stack |-> stk, sig |-> sg]
Idle == Context(<<>>, NoSig)

StackOf(t) == IF t = cur THEN stack ELSE parked[t].stack
SigOf(t) == IF t = cur THEN sig ELSE parked[t].sig

\* threading.Thread.is_alive()
is_alive(t) == StackOf(t) # <<>>

\* threading.Thread(target=...).start(): the new thread, not yet scheduled,
\* is about to call its target
ThreadStarted(frame) ==
    LET t == Len(started) + 1
    IN [u \in 0..t |-> IF u = t THEN Context(<<frame>>, NoSig) ELSE parked[u]]

KindOf(c) == IF c = Root THEN rootKind ELSE "leaf"
StrategyOf(c) == IF c = Repl THEN "stop" ELSE error_strategy[c]

Init ==
    /\ engine \in Engines
    /\ rootKind \in {"leaf", "group", "parallel", "cyclic", "thread"}
    /\ \E n \in 0..MaxChildren :
          /\ rootKind \in {"leaf", "thread"} => n = 0
          /\ rootKind = "cyclic" => n = 1
          /\ commands = [k \in 1..n |-> k]
          /\ error_strategy \in [0..n -> Strategies]
    /\ cycles \in IF rootKind = "cyclic" THEN 0..MaxCycles ELSE {1}
    /\ timeout \in IF rootKind = "thread" THEN {"None", "set"} ELSE {"None"}
    /\ reset_callback \in IF rootKind = "group" THEN {"None", "callable"} ELSE {"None"}
    /\ iteration = 0
    /\ counter = 0
    /\ stack = <<>>
    /\ sig = NoSig
    /\ cur = Main
    /\ parked = [t \in {Main} |-> Idle]
    /\ started = <<>>
    /\ hooked = <<>>
    /\ asked = NoSig
    /\ works = <<>>
    /\ calls = <<>>
    /\ faults = 0
    /\ okWorks = 0
    /\ counter0 = 0
    /\ nworks = 0
    /\ runs = 0

\* a caller invokes process() on the root command
Start ==
    /\ cur = Main
    /\ stack = <<>>
    /\ runs < MaxRuns
    /\ stack' = <<Frame("process", Root, "work")>>
    /\ sig' = NoSig
    /\ works' = <<>>
    /\ calls' = <<>>
    /\ hooked' = <<>>
    /\ asked' = NoSig
    /\ faults' = 0
    /\ counter0' = counter
    /\ runs' = runs + 1
    /\ UNCHANGED <<config, threads, iteration, counter, okWorks, nworks>>

\* --------------------------------------------------- the execution engine
\* what process() hands to its caller when the engine ends with result r:
\* base.py process() calls _do_process() and drops its value, command.py
\* returns it
ProcessReturn(r) == IF engine = "base" THEN None ELSE r

\* (variant) an absent result of _do_work kept as it is
CoerceNothing(r) == r

\* an absent result of _do_work: base.py replaces it by CommandResult.new_ok(),
\* command.py keeps None
Coerce(r) == IF engine = "base" /\ r = None THEN new_ok ELSE r

\* (variant) the caught fault wrapped again with the engine's own iteration
ReraiseRewrapped(f, e) == Raise(RunnerRuntimeError(e.result, f.it))

\* except RunnerRuntimeError as ree: raise ree
Reraise(f, e) == Raise(e)

\* (variant) the fault numbered with the attempt that would come next
CriticalNextAttempt(f) == Raise(RunnerRuntimeError(f.res, f.it + 1))

\* case CommandResultLevel.CRITICAL: raise RunnerRuntimeError(result, iteration)
Critical(f) == Raise(RunnerRuntimeError(f.res, f.it))

\* (variant) the Counter incremented for every result that does not escalate
CountedUnlessCritical(level) == level \in {"OK", "ERROR"}

\* case CommandResultLevel.OK: self._increment_counter()
Counted(level) == level = "OK"

\* Counter.increment()
CounterIncrement(c) == c + 1

\* the engine ran out of attempts: base.py `if iteration > 3`, command.py the
\* code after `while i <= 3`
Exhausted(f) ==
    IF engine = "base" THEN CannotRun
    ELSE IF f.res = None THEN CannotRun ELSE f.res

\* the try/except around self._do_work(), given what _do_work did (o)
TryWork(f, o) ==
    IF o.t = "exc" /\ o.exc.type = "RunnerRuntimeError"
    THEN /\ stack' = Popped
         /\ sig' = Reraise(f, o.exc)
    ELSE /\ stack' = WithTop([f EXCEPT !.pc = "match",
                                       !.res = IF o.t = "exc" THEN Unexpected(o.exc)
                                               ELSE Coerce(o.res)])
         /\ sig' = NoSig

OkWorksAfter(o) ==
    IF o.t = "ret" /\ o.res.level \in {"OK", "NONE"} THEN okWorks + 1 ELSE okWorks

\* where the _do_work of each composite class begins
Entry(kind) ==
    CASE kind = "group" -> "loop"
      [] kind = "parallel" -> "spawn"
      [] kind = "cyclic" -> "cycle"
      [] kind = "thread" -> "start"

\* the engine's attempt: the cap test, then self._do_work() inside try/except.
\* A leaf's _do_work is one step with one of LeafOutcomes; the _do_work of a
\* group, parallel, cyclic or thread command gets a frame of its own.
DoWork ==
    /\ Running("process", "work")
    /\ LET f == Top
           g == [f EXCEPT !.n = f.n + 1]
       IN IF f.it > MaxAttempts
          THEN /\ stack' = Popped
               /\ sig' = Return(ProcessReturn(Exhausted(f)))
               /\ UNCHANGED <<works, okWorks, nworks>>
          ELSE IF KindOf(f.cmd) = "leaf"
          THEN /\ nworks < MaxWorks
               /\ \E o \in LeafOutcomes :
                     /\ TryWork(g, o)
                     /\ works' = Append(works, [cmd |-> f.cmd, out |-> o])
                     /\ okWorks' = OkWorksAfter(o)
               /\ nworks' = nworks + 1
          ELSE /\ stack' = Append(WithTop([g EXCEPT !.pc = "inwork"]),
                                  [Frame("_do_work", f.cmd, Entry(KindOf(f.cmd)))
                                     EXCEPT !.it = 0])
               /\ sig' = NoSig
               /\ UNCHANGED <<works, okWorks, nworks>>
    /\ UNCHANGED <<config, threads, hooked, asked, iteration, counter, calls, faults, counter0, runs>>

\* a composite's _do_work came back to the engine's try/except
WorkDone ==
    /\ Running("process", "inwork")
    /\ sig.t # "none"
    /\ TryWork(Top, sig)
    /\ okWorks' = OkWorksAfter(sig)
    /\ UNCHANGED <<config, threads, hooked, asked, iteration, counter, works, calls, faults, counter0, nworks, runs>>

\* match result.level
Match ==
    /\ Running("process", "match")
    /\ LET f == Top
           level == f.res.level
       IN /\ counter' = IF Counted(level) THEN CounterIncrement(counter) ELSE counter
          /\ CASE level = "NONE" ->
                    \* command.py: result.level on None
                    /\ stack' = Popped
                    /\ sig' = Raise(AttributeError)
               [] level = "OK" ->
                    /\ stack' = Popped
                    /\ sig' = Return(ProcessReturn(f.res))
               [] level = "ERROR" /\ StrategyOf(f.cmd) \in {"omit", "stop"} ->
                    /\ stack' = Popped
                    /\ sig' = Return(ProcessReturn(f.res))
               [] level = "ERROR" /\ StrategyOf(f.cmd) = "restart" ->
                    IF engine = "base"
                    THEN \* return self.process(iteration + 1): process(self)
                         \* takes no second positional argument
                         /\ stack' = Popped
                         /\ sig' = Raise(TypeError)
                    ELSE \* i += 1, back to `while i <= 3`
                         /\ stack' = WithTop([f EXCEPT !.it = f.it + 1, !.pc = "work"])
                         /\ sig' = NoSig
               [] level = "CRITICAL" ->
                    /\ stack' = Popped
                    /\ sig' = Critical(f)
    /\ UNCHANGED <<config, threads, hooked, asked, iteration, works, calls, faults, okWorks, counter0, nworks, runs>>

\* ------------------------------------------------- GroupCommand._do_work
\* the callee's completion leaves _do_work unhandled: the frame is unwound
Propagate ==
    /\ stack' = Popped
    /\ sig' = sig

\* while i < len(self.commands): self.commands[i].process()
\* (i is the frame's it; the loop body does not change it)
GroupLoop ==
    /\ Running("_do_work", "loop")
    /\ LET f == Top
       IN IF f.it < Len(commands)
          THEN /\ stack' = Append(WithTop([f EXCEPT !.pc = "wait"]),
                                  Frame("process", commands[f.it + 1], "work"))
               /\ calls' = Append(calls, commands[f.it + 1])
               /\ sig' = NoSig
          ELSE /\ stack' = Popped
               /\ sig' = Return(None)
               /\ UNCHANGED calls
    /\ UNCHANGED <<config, threads, hooked, asked, iteration, counter, works, faults, okWorks, counter0, nworks, runs>>

\* self.commands[i].process() came back: its value is discarded; a
\* RunnerRuntimeError enters the except clause, any other fault leaves _do_work
GroupChildDone ==
    /\ Running("_do_work", "wait")
    /\ sig.t # "none"
    /\ LET f == Top
       IN CASE sig.t = "ret" ->
                 /\ stack' = WithTop([f EXCEPT !.pc = "loop"])
                 /\ sig' = NoSig
                 /\ UNCHANGED faults
            [] sig.t = "exc" /\ sig.exc.type = "RunnerRuntimeError" ->
                 /\ stack' = WithTop([f EXCEPT !.pc = "except", !.exc = sig.exc])
                 /\ sig' = NoSig
                 /\ faults' = faults + 1
            [] OTHER ->
                 /\ Propagate
                 /\ faults' = faults + 1
    /\ UNCHANGED <<config, threads, hooked, asked, iteration, counter, works, calls, okWorks, counter0, nworks, runs>>

\* if self.reset_callback is not None:
\*     command = self.reset_callback(self.commands[i], rre.result)
\*     if command is not None: command.process()
GroupReset ==
    /\ Running("_do_work", "except")
    /\ LET f == Top
       IN /\ \E command \in IF reset_callback = "None" THEN {"None"}
                             ELSE {"None", "command"} :
             IF command = "None"
             THEN stack' = WithTop([f EXCEPT !.pc = "strategy"])
             ELSE stack' = Append(WithTop([f EXCEPT !.pc = "reset"]),
                                  Frame("process", Repl, "work"))
          /\ hooked' = IF reset_callback = "None" THEN hooked
                       ELSE Append(hooked, [cmd |-> commands[f.it + 1],
                                            result |-> f.exc.result])
    /\ sig' = NoSig
    /\ UNCHANGED <<config, threads, asked, iteration, counter, works, calls, faults, okWorks, counter0, nworks, runs>>

\* (variant) the replacement run under a handler that lets nothing out
EscapesNothing(s) == FALSE

\* command.process() stands in the except clause under no handler of its own:
\* whatever it raises leaves _do_work
Escapes(s) == s.t = "exc"

\* command.process() of the replacement came back: its value is discarded, a
\* fault of it leaves _do_work
GroupResetDone ==
    /\ Running("_do_work", "reset")
    /\ sig.t # "none"
    /\ IF ~Escapes(sig)
       THEN /\ stack' = WithTop([Top EXCEPT !.pc = "strategy"])
            /\ sig' = NoSig
       ELSE Propagate
    /\ UNCHANGED <<config, threads, hooked, asked, iteration, counter, works, calls, faults, okWorks, counter0, nworks, runs>>

\* (variant) the counter of restarts left as it is
SameIteration(n) == n

\* self.iteration += 1
NextIteration(n) == n + 1

\* match self.error_strategy, in the except clause
GroupStrategy ==
    /\ Running("_do_work", "strategy")
    /\ LET f == Top
       IN CASE StrategyOf(f.cmd) = "omit" ->
                 /\ stack' = Popped
                 /\ sig' = Return(None)
                 /\ UNCHANGED iteration
            [] StrategyOf(f.cmd) = "stop" ->
                 /\ stack' = Popped
                 /\ sig' = Raise(f.exc)
                 /\ UNCHANGED iteration
            [] StrategyOf(f.cmd) = "restart" ->
                 /\ iteration' = NextIteration(iteration)
                 /\ stack' = Append(WithTop([f EXCEPT !.pc = "restart"]),
                                    [Frame("_do_work", f.cmd, "loop") EXCEPT !.it = 0])
                 /\ sig' = NoSig
    /\ UNCHANGED <<config, threads, hooked, asked, counter, works, calls, faults, okWorks, counter0, nworks, runs>>

\* the nested self._do_work() of a restart came back: its value is discarded
\* and _do_work ends, a fault of it leaves _do_work
GroupRestartDone ==
    /\ Running("_do_work", "restart")
    /\ sig.t # "none"
    /\ IF sig.t = "ret"
       THEN /\ stack' = Popped
            /\ sig' = Return(None)
       ELSE Propagate
    /\ UNCHANGED <<config, threads, hooked, asked, iteration, counter, works, calls, faults, okWorks, counter0, nworks, runs>>

\* ----------------------------------------------------------- scheduling
\* the interpreter hands the processor to another thread: to a worker that
\* has not ended, or back to the thread of the caller
Switch ==
    \E t \in DOMAIN parked \ {cur} :
        /\ t = Main \/ parked[t].stack # <<>>
        /\ parked' = [parked EXCEPT ![cur] = Context(stack, sig), ![t] = Idle]
        /\ stack' = parked[t].stack
        /\ sig' = parked[t].sig
        /\ cur' = t
        /\ UNCHANGED <<config, started, hooked, asked, iteration, counter, works, calls,
                       faults, okWorks, counter0, nworks, runs>>

\* ---------------------------------------------- ParallelCommand._do_work
\* for command in self.commands: threading.Thread(target=command.process),
\* thread.start(); the frame's it is the loop index, its n the first thread
\* of the list `threads`
ParallelSpawn ==
    /\ Running("_do_work", "spawn")
    /\ LET f == Top
       IN IF f.it < Len(commands)
          THEN /\ parked' = ThreadStarted(Frame("process", commands[f.it + 1], "work"))
               /\ started' = Append(started, [cmd |-> commands[f.it + 1], run |-> runs])
               /\ calls' = Append(calls, commands[f.it + 1])
               /\ stack' = WithTop([f EXCEPT !.it = f.it + 1])
          ELSE /\ stack' = WithTop([f EXCEPT !.pc = "join", !.it = 0,
                                             !.n = Len(started) - Len(commands) + 1])
               /\ UNCHANGED <<parked, started, calls>>
    /\ sig' = NoSig
    /\ UNCHANGED <<config, cur, hooked, asked, iteration, counter, works, faults, okWorks,
                   counter0, nworks, runs>>

\* (variant) a join that does not wait for its thread
JoinAtOnce(t) == TRUE

\* thread.join() returns once the thread has ended
Joined(t) == ~is_alive(t)

\* for thread in threads: thread.join(); then _do_work ends without a value
ParallelJoin ==
    /\ Running("_do_work", "join")
    /\ rootKind = "parallel"
    /\ LET f == Top
       IN IF f.it < Len(commands)
          THEN /\ Joined(f.n + f.it)
               /\ stack' = WithTop([f EXCEPT !.it = f.it + 1])
               /\ sig' = NoSig
          ELSE /\ stack' = Popped
               /\ sig' = Return(None)
    /\ UNCHANGED <<config, threads, hooked, asked, iteration, counter, works, calls, faults,
                   okWorks, counter0, nworks, runs>>

\* ------------------------------------------------ CyclicCommand._do_work
\* (variant) a loop that runs once more
RangeInclusive(n) == n + 1

\* len(range(n))
Range(n) == n

\* for _ in range(self.cycles): self.command.process()
CyclicLoop ==
    /\ Running("_do_work", "cycle")
    /\ LET f == Top
       IN IF f.it < Range(cycles)
          THEN /\ stack' = Append(WithTop([f EXCEPT !.pc = "cycling"]),
                                  Frame("process", commands[1], "work"))
               /\ calls' = Append(calls, commands[1])
               /\ sig' = NoSig
          ELSE /\ stack' = Popped
               /\ sig' = Return(None)
               /\ UNCHANGED calls
    /\ UNCHANGED <<config, threads, hooked, asked, iteration, counter, works, faults,
                   okWorks, counter0, nworks, runs>>

\* self.command.process() came back: its value is discarded, a fault of it
\* leaves _do_work
CyclicChildDone ==
    /\ Running("_do_work", "cycling")
    /\ sig.t # "none"
    /\ IF sig.t = "ret"
       THEN /\ stack' = WithTop([Top EXCEPT !.pc = "cycle", !.it = Top.it + 1])
            /\ sig' = NoSig
            /\ UNCHANGED faults
       ELSE /\ Propagate
            /\ faults' = faults + 1
    /\ UNCHANGED <<config, threads, hooked, asked, iteration, counter, works, calls,
                   okWorks, counter0, nworks, runs>>

\* ------------------------------------------------ ThreadCommand._do_work
\* thread = threading.Thread(target=self.cmd, args=self.args); thread.start()
ThreadStart ==
    /\ Running("_do_work", "start")
    /\ parked' = ThreadStarted(Frame("cmd", Top.cmd, "run"))
    /\ started' = Append(started, [cmd |-> Top.cmd, run |-> runs])
    /\ stack' = WithTop([Top EXCEPT !.pc = "join", !.n = Len(started) + 1])
    /\ sig' = NoSig
    /\ UNCHANGED <<config, cur, hooked, asked, iteration, counter, works, calls, faults,
                   okWorks, counter0, nworks, runs>>

\* the callable self.cmd ends, by returning or by raising; either ends its
\* thread
CmdRun ==
    /\ Running("cmd", "run")
    /\ stack' = Popped
    /\ \E o \in {Return(None), Raise(OSError)} : sig' = o
    /\ UNCHANGED <<config, threads, hooked, asked, iteration, counter, works, calls, faults,
                   okWorks, counter0, nworks, runs>>

\* (variant) the message of the spec
TimeoutMessage == "timeout"

\* CommandResult.new_error("Thread timeout")
ThreadTimeout == "Thread timeout"

\* thread.join(self.timeout) returns when the thread has ended or, with a
\* timeout, when the deadline has passed (the frame's it records that);
\* command.py joins without a timeout and ends without a value
ThreadJoin ==
    /\ Running("_do_work", "join")
    /\ rootKind = "thread"
    /\ LET f == Top
       IN \E late \in BOOLEAN :
             /\ late => engine = "base" /\ timeout = "set" /\ is_alive(f.n)
             /\ ~late => ~is_alive(f.n)
             /\ IF engine = "base"
                THEN /\ stack' = WithTop([f EXCEPT !.pc = "alive",
                                                   !.it = IF late THEN 1 ELSE 0])
                     /\ sig' = NoSig
                ELSE /\ stack' = Popped
                     /\ sig' = Return(None)
    /\ UNCHANGED <<config, threads, hooked, asked, iteration, counter, works, calls, faults,
                   okWorks, counter0, nworks, runs>>

\* if thread.is_alive(): return CommandResult.new_error("Thread timeout")
\* return CommandResult.new_ok()
ThreadAlive ==
    /\ Running("_do_work", "alive")
    /\ stack' = Popped
    /\ sig' = IF is_alive(Top.n)
              THEN Return(CommandResult("ERROR", ThreadTimeout, <<>>))
              ELSE Return(new_ok)
    /\ UNCHANGED <<config, threads, hooked, asked, iteration, counter, works, calls, faults,
                   okWorks, counter0, nworks, runs>>

\* ---------------------------------------------------- number of works
\* the attribute number_of_works is annotated on the class and assigned by
\* no constructor: reading it raises AttributeError
number_of_works(c) == Raise(AttributeError)

\* (variant) the sum over children's get_number_of_works()
SumOfGetters(cs) == Return(Len(cs))

\* sum(command.number_of_works for command in self.commands): the sum of no
\* terms is 0, the first term of any other raises
SumOfAttributes(cs) == IF cs = <<>> THEN Return(0) ELSE number_of_works(cs[1])

\* BaseCommand.get_number_of_works returns 1; GroupCommand overrides it and
\* ParallelCommand inherits that; CyclicCommand and ThreadCommand do not
get_number_of_works(c) ==
    IF KindOf(c) \in {"group", "parallel"} THEN SumOfAttributes(commands) ELSE Return(1)

\* a caller asks the root command for its number of works: before or after a
\* process() call, or during one (observed where the engine matches the
\* root's result)
GetNumberOfWorks ==
    /\ cur = Main
    /\ asked.t = "none"
    /\ stack = <<>> \/ (Len(stack) = 1 /\ Top.pc = "match")
    /\ asked' = get_number_of_works(Root)
    /\ UNCHANGED <<config, threads, hooked, iteration, counter, stack, sig, works, calls,
                   faults, okWorks, counter0, nworks, runs>>

Next ==
    \/ Start
    \/ Switch
    \/ GetNumberOfWorks
    \/ ParallelSpawn
    \/ ParallelJoin
    \/ CyclicLoop
    \/ CyclicChildDone
    \/ ThreadStart
    \/ CmdRun
    \/ ThreadJoin
    \/ ThreadAlive
    \/ DoWork
    \/ WorkDone
    \/ Match
    \/ GroupLoop
    \/ GroupChildDone
    \/ GroupReset
    \/ GroupResetDone
    \/ GroupStrategy
    \/ GroupRestartDone

Spec == Init /\ [][Next]_vars

\* the current engine alone (command/base.py)
InitBase == Init /\ engine = "base"
SpecBase == InitBase /\ [][Next]_vars

\* ---------------------------------------------------------------- claims
\* process() on the root has ended; sig is what its caller got
Done == cur = Main /\ stack = <<>> /\ sig.t # "none"

\* what the leaf _do_work calls of the current process() call did, in order
Outs == [k \in 1..Len(works) |-> works[k].out]

IsPrefix(s, t) == Len(s) <= Len(t) /\ \A k \in 1..Len(s) : s[k] = t[k]

AllOuts(o) == works # <<>> /\ \A k \in 1..Len(works) : works[k].out = o

LastOut == works[Len(works)].out

RootIs(kind, strategy) == rootKind = kind /\ error_strategy[Root] = strategy

ErrorErrorOk == <<Return(ShellError), Return(ShellError), Return(ShellOk)>>

\* C1: a leaf with error_strategy = restart whose _do_work yields ERROR, ERROR,
\* OK ends one process() call by returning that OK result after exactly three
\* _do_work calls, without raising, the Counter one higher than before.
C1_RestartRetriesTwice ==
    (/\ RootIs("leaf", "restart")
     /\ Done
     /\ works # <<>>
     /\ IsPrefix(Outs, ErrorErrorOk))
    => (/\ Outs = ErrorErrorOk
        /\ sig = Return(ShellOk)
        /\ counter = counter0 + 1)

\* C2: a leaf with error_strategy = restart whose _do_work returns ERROR on
\* every call ends one process() call after at most 3 _do_work calls by
\* returning the synthesized CRITICAL result, the Counter unchanged.
C2_RestartCapped ==
    (RootIs("leaf", "restart") /\ Done /\ AllOuts(Return(ShellError)))
    => (/\ Len(works) <= MaxAttempts
        /\ sig = Return(CannotRun)
        /\ counter = counter0)

\* the step that dispatches a CRITICAL result, and the end of a leaf's process()
\* whose last _do_work returned CRITICAL
C3_CriticalStep ==
    (Running("process", "match") /\ Top.res.level = "CRITICAL"
       /\ cur' = cur /\ stack' # stack)
    => (/\ Top.n \in 1..MaxAttempts
        /\ sig' = Raise(RunnerRuntimeError(Top.res, Top.n))
        /\ stack' = Popped
        /\ counter' = counter
        /\ works' = works)

C3_CriticalEnd ==
    (rootKind = "leaf" /\ Done /\ works # <<>>
       /\ LastOut.t = "ret" /\ LastOut.res.level = "CRITICAL")
    => (/\ sig = Raise(RunnerRuntimeError(LastOut.res, Len(works)))
        /\ counter = counter0
        /\ \A k \in 1..(Len(works) - 1) :
              ~(works[k].out.t = "ret" /\ works[k].out.res.level = "CRITICAL"))

\* C3: an attempt whose _do_work returned CRITICAL ends process() at once by
\* raising RunnerRuntimeError with that result and the number of the attempt
\* (1..3), under every strategy, with no further attempt and the Counter
\* untouched.
C3_CriticalRaises == [](C3_CriticalEnd) /\ [][C3_CriticalStep]_vars

C3_Witness ==
    /\ Done
    /\ RootIs("leaf", "restart")
    /\ Len(works) = MaxAttempts
    /\ LastOut = Return(LeafCritical)
    /\ sig = Raise(RunnerRuntimeError(LeafCritical, MaxAttempts))

\* C4: with error_strategy stop or omit an ERROR result of _do_work, and under
\* any strategy an OK result, is what process() returns to its caller, after
\* one _do_work call.
C4_ResultReturned ==
    (/\ rootKind = "leaf"
     /\ Done
     /\ works # <<>>
     /\ \/ works[1].out = Return(ShellOk)
        \/ works[1].out = Return(ShellError) /\ error_strategy[Root] \in {"stop", "omit"})
    => (Len(works) = 1 /\ sig = works[1].out)

\* the step in which _do_work raises RunnerRuntimeError, and the end of a
\* leaf's process() whose last _do_work raised it
C5_FatalStep ==
    /\ (Len(works') = Len(works) + 1
          /\ works'[Len(works')].out.t = "exc"
          /\ works'[Len(works')].out.exc.type = "RunnerRuntimeError")
       => (/\ sig' = works'[Len(works')].out
           /\ stack' = Popped
           /\ counter' = counter)
    /\ (Running("process", "inwork") /\ sig.t = "exc"
          /\ sig.exc.type = "RunnerRuntimeError" /\ cur' = cur)
       => (sig' = sig /\ stack' = Popped /\ counter' = counter /\ works' = works)

C5_FatalEnd ==
    (rootKind = "leaf" /\ Done /\ works # <<>>
       /\ LastOut.t = "exc" /\ LastOut.exc.type = "RunnerRuntimeError")
    => (sig = LastOut /\ counter = counter0)

\* C5: an attempt whose _do_work raised RunnerRuntimeError(r, k) ends process()
\* at once by raising the same fault (same r, same k), for a leaf and for a
\* composite, under every strategy, with no further attempt and the Counter
\* untouched.
C5_FatalReraised == [](C5_FatalEnd) /\ [][C5_FatalStep]_vars

C5_Witness ==
    /\ Done
    /\ RootIs("leaf", "restart")
    /\ works = <<[cmd |-> Root, out |-> Raise(RunnerRuntimeError(new_error, TestRetry))]>>
    /\ sig = Raise(RunnerRuntimeError(new_error, TestRetry))

\* C6: when every _do_work call of a leaf raises a fault other than
\* RunnerRuntimeError, process() lets no fault other than RunnerRuntimeError
\* out and does not end with a CRITICAL result, under every strategy.
C6_FaultCoerced ==
    (rootKind = "leaf" /\ Done /\ AllOuts(Raise(OSError)))
    => (/\ ~(sig.t = "exc" /\ sig.exc.type # "RunnerRuntimeError")
        /\ sig.res.level # "CRITICAL")

\* the OK results that the engine holds and has not dispatched yet, in the
\* threads up to t
PendingIn(stk) ==
    IF stk # <<>> /\ stk[Len(stk)].fn = "process" /\ stk[Len(stk)].pc = "match"
          /\ stk[Len(stk)].res.level = "OK"
    THEN 1 ELSE 0

RECURSIVE PendingUpTo(_)
PendingUpTo(t) == PendingIn(StackOf(t)) + (IF t = Main THEN 0 ELSE PendingUpTo(t - 1))

PendingOk == PendingUpTo(Len(started))

\* C7: the Counter never decreases, and it equals the number of _do_work
\* attempts that returned OK or nothing (less the one whose result the engine
\* is about to count): ERROR, CRITICAL and raised faults add nothing.
C7_CounterCountsOk ==
    /\ [](counter + PendingOk = okWorks)
    /\ [][counter' >= counter /\ counter' <= counter + 1]_vars

C7_Witness ==
    /\ Done
    /\ runs = 2
    /\ counter0 = 1
    /\ counter = 2
    /\ works = <<[cmd |-> Root, out |-> Return(None)]>>

\* C8: while no child of a Sequential group has raised, the group has invoked
\* process() of its children once each and in index order, and it ends by
\* returning with every child invoked.
C8_ChildrenOnceInOrder ==
    (rootKind = "group" /\ commands # <<>> /\ faults = 0)
    => (/\ IsPrefix(calls, commands)
        /\ Done => (sig.t = "ret" /\ calls = commands))

\* C9: a Sequential group with error_strategy = stop and no reset callback,
\* one of whose children raised RunnerRuntimeError(r, k) after the earlier
\* children succeeded, ends by raising that same fault, having invoked the
\* children up to the failing one once each and none after it.
C9_StopReraises ==
    (/\ RootIs("group", "stop")
     /\ reset_callback = "None"
     /\ Done
     /\ faults = 1
     /\ works # <<>>
     /\ \A k \in 1..(Len(works) - 1) : works[k].out = Return(ShellOk)
     /\ LastOut.t = "exc" /\ LastOut.exc.type = "RunnerRuntimeError")
    => (sig = LastOut /\ IsPrefix(calls, commands))

\* C10: a Sequential group with error_strategy = omit whose children return
\* ERROR on every call invokes no child twice and ends by returning the ERROR
\* result, without raising.
C10_OmitReturnsError ==
    (RootIs("group", "omit") /\ commands # <<>> /\ AllOuts(Return(ShellError)))
    => (/\ IsPrefix(calls, commands)
        /\ Done => sig = Return(ShellError))

\* ------------------------------------------------------- parallel claims
\* the workers started in the current process() call, oldest first, and the
\* commands they were started for
InRun(w) == w.run = runs
RunWorkers == {t \in 1..Len(started) : InRun(started[t])}
RunTargets ==
    LET ws == SelectSeq(started, InRun) IN [k \in 1..Len(ws) |-> ws[k].cmd]

\* the worker's target ended by raising RunnerRuntimeError
Faulted(t) == SigOf(t).t = "exc" /\ SigOf(t).exc.type = "RunnerRuntimeError"

\* C11: when process() of a Parallel command has ended and a worker's child
\* raised RunnerRuntimeError, process() ended by raising the fault of the
\* first such worker in child order.
C11_WorkerFaultReraised ==
    (rootKind = "parallel" /\ Done)
    => \A t \in RunWorkers :
          (Faulted(t) /\ \A u \in RunWorkers : u < t => ~Faulted(u))
          => sig = SigOf(t)

\* every child of the Parallel command did one _do_work, which returned OK
EachChildOk ==
    /\ commands # <<>>
    /\ Len(works) = Len(commands)
    /\ \A k \in 1..Len(works) : works[k].out = Return(ShellOk)
    /\ \A c \in 1..Len(commands) : \E k \in 1..Len(works) : works[k].cmd = commands[c]

\* C12 (as claimed): a Parallel command with N children, each OK, ends
\* process() without raising and with the Counter N higher than before.
C12_CounterPlusN ==
    (rootKind = "parallel" /\ Done /\ EachChildOk)
    => (sig.t = "ret" /\ counter = counter0 + Len(commands))

\* C12 (amended): a Parallel command with N children, each OK, ends process()
\* without raising and with the Counter N + 1 higher than before, once per
\* child and once for the Parallel command itself, in whatever order the
\* workers ran; until then the Counter is less than that.
C12_CounterPlusNPlusOne ==
    (rootKind = "parallel" /\ runs > 0 /\ EachChildOk)
    => (/\ counter <= counter0 + Len(commands) + 1
        /\ Done => (sig.t = "ret" /\ counter = counter0 + Len(commands) + 1))

\* two workers whose Counter increments came in the order opposite to that of
\* their start
C12_Witness ==
    /\ rootKind = "parallel"
    /\ Done
    /\ EachChildOk
    /\ Len(commands) = 2
    /\ works[1].cmd = commands[2]
    /\ counter = counter0 + 3

\* the _do_work of the Parallel command has returned to the engine
ParallelReturned ==
    LET stk == StackOf(Main)
    IN /\ runs > 0
       /\ \/ stk = <<>>
          \/ Len(stk) = 1 /\ stk[1].pc = "match"
          \/ Len(stk) = 1 /\ stk[1].pc = "inwork" /\ SigOf(Main).t # "none"

\* C13: one _do_work of a Parallel command starts one worker per child, in
\* child order; a worker runs process() of its child and nothing else; when
\* _do_work has returned every child has a worker, every worker has ended and
\* every child did its _do_work, whatever its siblings did.
C13_OneWorkerPerChild ==
    rootKind = "parallel"
    => (/\ IsPrefix(RunTargets, commands)
        /\ \A t \in RunWorkers :
              \/ StackOf(t) = <<>>
              \/ /\ Len(StackOf(t)) = 1
                 /\ StackOf(t)[1].fn = "process"
                 /\ StackOf(t)[1].cmd = started[t].cmd
        /\ ParallelReturned =>
              (/\ RunTargets = commands
               /\ \A t \in RunWorkers :
                     /\ ~is_alive(t)
                     /\ SigOf(t).t # "none"
                     /\ \E k \in 1..Len(works) : works[k].cmd = started[t].cmd))

\* the first child raised and its sibling ran after that, to its end
C13_Witness ==
    /\ rootKind = "parallel"
    /\ Done
    /\ Len(commands) = 2
    /\ Len(works) = 2
    /\ works[1] = [cmd |-> commands[1], out |-> Raise(RunnerRuntimeError(new_error, TestRetry))]
    /\ works[2] = [cmd |-> commands[2], out |-> Return(ShellOk)]


\* --------------------------------------------------------- cyclic claims
\* the child's last _do_work made its process() raise RunnerRuntimeError: by
\* raising one, or by a CRITICAL result
LastFatal ==
    /\ works # <<>>
    /\ \/ LastOut.t = "exc" /\ LastOut.exc.type = "RunnerRuntimeError"
       \/ LastOut.t = "ret" /\ LastOut.res.level = "CRITICAL"

\* within one process() call of a Cyclic command only its child is invoked;
\* while no invocation raised there are at most cycles of them, and cycles
\* when process() has ended; when the one invocation that raised did so with
\* RunnerRuntimeError, process() ended with that fault
C14_CyclicEnd ==
    rootKind = "cyclic"
    => (/\ \A k \in 1..Len(calls) : calls[k] = commands[1]
        /\ faults = 0 => Len(calls) <= cycles
        /\ (Done /\ faults = 0) => Len(calls) = cycles
        /\ (Done /\ faults = 1 /\ LastFatal) =>
              (/\ Len(calls) <= cycles
               /\ sig.t = "exc"
               /\ sig.exc.type = "RunnerRuntimeError"
               /\ sig.exc.result = (IF LastOut.t = "exc" THEN LastOut.exc.result
                                    ELSE LastOut.res)
               /\ LastOut.t = "exc" => sig = LastOut))

\* after the invocation that raised RunnerRuntimeError, no further invocation
\* in that process() call
C14_CyclicStep ==
    (rootKind = "cyclic" /\ faults = 1 /\ faults' = 1 /\ LastFatal) => calls' = calls

\* C14: one _do_work of a Cyclic command invokes process() of its child
\* exactly cycles times when no invocation raises; when the k-th raises
\* RunnerRuntimeError the other cycles - k do not happen and process() of the
\* Cyclic command ends by raising that same fault.
C14_CyclesThenFault == [](C14_CyclicEnd) /\ [][C14_CyclicStep]_vars

\* the first of two cycles raised: one invocation, and its fault came out
C14_Witness ==
    /\ rootKind = "cyclic"
    /\ cycles = 2
    /\ Done
    /\ Len(calls) = 1
    /\ faults = 1
    /\ sig = Raise(RunnerRuntimeError(new_error, TestRetry))


\* --------------------------------------------------------- thread claims
\* the step in which _do_work of a Background-thread command returns
ThreadReturns ==
    /\ rootKind = "thread"
    /\ Running("_do_work", "alive")
    /\ cur' = cur
    /\ stack' # stack

\* C15 (as claimed): _do_work of a Background-thread command returns ERROR
\* with message "timeout" exactly when the wait ended at the deadline with the
\* worker not finished, and OK otherwise.
C15_TimeoutAtDeadline ==
    [][ThreadReturns =>
         sig' = IF Top.it = 1 THEN Return(CommandResult("ERROR", "timeout", <<>>))
                ELSE Return(new_ok)]_vars

\* what _do_work returns depends on the worker alone as it is when looked at
\* after the wait; that look and the return leave every worker as it was
C15_ReturnStep ==
    ThreadReturns =>
        (/\ sig' = IF is_alive(Top.n)
                   THEN Return(CommandResult("ERROR", "Thread timeout", <<>>))
                   ELSE Return(new_ok)
         /\ is_alive(Top.n) => (Top.it = 1 /\ timeout = "set")
         /\ parked' = parked)

\* a worker ends by a step of its own only
C15_NotCancelled ==
    \A t \in 1..Len(started) : (is_alive(t) /\ ~is_alive(t)') => (cur = t /\ cur' = t)

\* C15 (amended): _do_work of a Background-thread command returns ERROR with
\* message "Thread timeout" exactly when its worker is still running when
\* looked at after the wait, which takes a timeout that has passed; the
\* worker is not cancelled and ends on its own; in every other case,
\* whether the callable returned or raised, _do_work returns OK.
C15_TimeoutWhenAlive == [][C15_ReturnStep /\ C15_NotCancelled]_vars

\* the engine holds the timeout result while the worker still runs
C15_Witness ==
    /\ rootKind = "thread"
    /\ timeout = "set"
    /\ cur = Main
    /\ Running("process", "match")
    /\ Top.res = CommandResult("ERROR", "Thread timeout", <<>>)
    /\ is_alive(Len(started))


\* ------------------------------------------------- number-of-works claims
\* the sum of the children's work counts (each child here is a leaf, of count
\* 1) for a Sequential or Parallel composite, child count times cycles for a
\* Cyclic command
ExpectedWorks ==
    CASE rootKind \in {"group", "parallel"} -> Len(commands)
      [] rootKind = "cyclic" -> 1 * cycles
      [] OTHER -> 1

\* C16: whenever it is asked, before, during or after process() calls,
\* get_number_of_works() of the root command returns the sum of its children's
\* work counts (Sequential, Parallel) or child count times cycles (Cyclic).
C16_NumberOfWorks ==
    asked.t # "none" => (asked.t = "ret" /\ asked.res = ExpectedWorks)


\* ---------------------------------------------------------- group claims
\* C17: a Sequential group with error_strategy = omit and no reset callback,
\* one of whose children raised RunnerRuntimeError after the earlier children
\* succeeded, ends process() without raising, having invoked the children up
\* to the failing one once each and none after it, the Counter incremented
\* for the earlier children and once for the group itself.
C17_OmitSwallows ==
    (/\ RootIs("group", "omit")
     /\ reset_callback = "None"
     /\ Done
     /\ faults = 1
     /\ works # <<>>
     /\ \A k \in 1..(Len(works) - 1) : works[k].out = Return(ShellOk)
     /\ LastOut.t = "exc" /\ LastOut.exc.type = "RunnerRuntimeError")
    => (/\ sig.t = "ret"
        /\ IsPrefix(calls, commands)
        /\ counter = counter0 + (Len(calls) - 1) + 1)


\* every _do_work of a child so far raised RunnerRuntimeError
AllFatal ==
    \A k \in 1..Len(works) :
        works[k].out.t = "exc" /\ works[k].out.exc.type = "RunnerRuntimeError"

\* in the first process() call of a Sequential group with restart, no reset
\* callback and a child that faults on every call: process() has not ended,
\* every pass began at child 0, and there were as many restarts as faults
C18_RestartEnd ==
    (/\ RootIs("group", "restart")
     /\ reset_callback = "None"
     /\ commands # <<>>
     /\ runs = 1
     /\ AllFatal)
    => (/\ ~Done
        /\ \A k \in 1..Len(calls) : calls[k] = commands[1]
        /\ faults - iteration \in {0, 1}
        /\ Len(calls) - iteration \in {0, 1})

\* the strategy step of a group with restart: one more restart, and a nested
\* _do_work that begins at child 0
C18_RestartStep ==
    (/\ RootIs("group", "restart")
     /\ Running("_do_work", "strategy")
     /\ cur' = cur
     /\ stack' # stack)
    => (/\ iteration' = iteration + 1
        /\ Len(stack') = Len(stack) + 1
        /\ stack'[Len(stack')].fn = "_do_work"
        /\ stack'[Len(stack')].pc = "loop"
        /\ stack'[Len(stack')].it = 0)

C19_HookThenStrategy ==
    (rootKind = "group" /\ reset_callback = "callable")
    => (/\ Len(hooked) <= faults
        /\ \A k \in 1..Len(hooked) :
              \E c \in 1..Len(commands) : hooked[k].cmd = commands[c]
        /\ (Done /\ faults = 1 /\ Len(hooked) = 1) =>
              (/\ error_strategy[Root] = "omit" => sig.t = "ret"
               /\ error_strategy[Root] = "stop" =>
                     (/\ sig.t = "exc"
                      /\ sig.exc.type = "RunnerRuntimeError"
                      /\ sig.exc.result = hooked[1].result)))


\* --------------------------------------------------------- re-run claims
\* process() of the root has been called and has made no attempt yet
RunBegins ==
    cur = Main /\ Len(stack) = 1 /\ stack[1].pc = "work" /\ stack[1].n = 0

\* C20: no step changes the configuration of the command (engine copy, class,
\* children, cycles, timeout, strategies, reset callback), and every
\* process() call begins at attempt 1 with the group's restart iteration
\* counter at 0.
C20_RunsStartFresh ==
    /\ [](RunBegins => (stack[1].it = 1 /\ iteration = 0))
    /\ [][config' = config]_vars


\* ------------------------------------------------------ replacement claims
\* the last _do_work was the replacement's and raised RunnerRuntimeError
ReplacementRaised ==
    /\ works # <<>>
    /\ works[Len(works)].cmd = Repl
    /\ LastOut.t = "exc"
    /\ LastOut.exc.type = "RunnerRuntimeError"

\* process() of a group whose replacement raised has ended with that fault
C21_ReplacementEnd ==
    (rootKind = "group" /\ Done /\ ReplacementRaised) => sig = LastOut

\* the step of _do_work that receives the replacement's fault hands it on
\* and neither restarts nor invokes anything; and once the replacement has
\* raised, no child is invoked and no restart counted in that process() call
C21_ReplacementStep ==
    /\ (/\ Running("_do_work", "reset")
        /\ sig.t = "exc"
        /\ sig.exc.type = "RunnerRuntimeError"
        /\ cur' = cur
        /\ stack' # stack)
       => (stack' = Popped /\ sig' = sig)
    /\ (rootKind = "group" /\ ReplacementRaised /\ runs' = runs)
       => (calls' = calls /\ iteration' = iteration /\ works' = works
             /\ counter' = counter)

\* C21: a RunnerRuntimeError raised by process() of the replacement that a
\* Sequential group's reset hook returned leaves the group's _do_work before
\* the group's strategy is looked at and comes out of the group's process(),
\* under omit and restart as under stop: nothing is swallowed, nothing is
\* restarted.
C21_ReplacementFaultEscapes == [](C21_ReplacementEnd) /\ [][C21_ReplacementStep]_vars

\* a group with omit ended with the fault of its replacement
C21_Witness ==
    /\ RootIs("group", "omit")
    /\ Done
    /\ ReplacementRaised
    /\ Len(hooked) = 1
    /\ sig = Raise(RunnerRuntimeError(LeafCritical, 2))


\* ------------------------------------------------- thread restart claims
\* C22: one process() call of a Background-thread command starts at most 3
\* workers; with error_strategy = restart and a timeout, when the call has
\* ended and none of its workers has finished, every one of the 3 attempts
\* started a worker of its own and all 3 are running.
C22_RetriesLeakWorkers ==
    rootKind = "thread"
    => (/\ Cardinality(RunWorkers) <= MaxAttempts
        /\ (/\ error_strategy[Root] = "restart"
            /\ timeout = "set"
            /\ Done
            /\ RunWorkers # {}
            /\ \A t \in RunWorkers : is_alive(t))
           => Cardinality(RunWorkers) = MaxAttempts)

====
